---- MODULE Spec2Model ----
(***************************************************************************)
(* Model of src/memory/__init__.py: the session gateway (create, load) and *)
(* the session handle class _Memory, over a shared Redis "session" store.  *)
(*                                                                         *)
(* The backend is the Redis instance opened at line 26.  It is shared with *)
(* the other request handlers of the service, so entries appear, change    *)
(* and expire independently of this process.                               *)
(*                                                                         *)
(* Python attribute protocol.  _Memory overrides __setattr__ (177-186) to  *)
(* write into the field store and __getattr__ (125-142) to read from it,   *)
(* and both reach the store through the instance attribute self.__store.   *)
(* An attribute access that the instance dictionary cannot satisfy falls   *)
(* back to __getattr__; the model follows that chain call by call.         *)
(***************************************************************************)
EXTENDS Integers, Sequences, FiniteSets, TLC

\* ------------------------------------------------------------------ bounds
\* identifiers callers pass to create/load
Ids == {"a", "b"}
\* identifiers uuid.uuid4().hex can return (line 46)
GenIds == {"u1"}
\* largest expiry, in seconds, used by callers and peers
MaxTtl == 2
\* largest field value
MaxVal == 1
\* depth at which the interpreter raises RecursionError
RecursionLimit == 3

\* ------------------------------------------------------- program constants
\* Redis reports -1 as the remaining lifetime of a key without expiry
NoExpiry == -1
\* the reserved field holding the session's expiry (lines 43, 233, 259)
TtlField == "__ttl"
\* names the compiler gives self.__key and self.__store inside _Memory
KeyAttr == "_Memory__key"
StoreAttr == "_Memory__store"

AllIds == Ids \cup GenIds
FieldNames == {TtlField, "user", "missing"}
Values == 0..MaxVal
Ttls == 0..MaxTtl

\* ---------------------------------------------------- dict / jobject model
\* A dict is a sequence of <<key, value>> pairs with distinct keys, in
\* insertion order.
EmptyDict == <<>>

DictKeys(d) == {d[n][1] : n \in 1..Len(d)}

DictHas(d, k) == k \in DictKeys(d)

DictGet(d, k) == d[CHOOSE n \in 1..Len(d) : d[n][1] = k][2]

DictSet(d, k, v) ==
    IF DictHas(d, k)
    THEN [n \in 1..Len(d) |-> IF d[n][1] = k THEN <<k, v>> ELSE d[n]]
    ELSE Append(d, <<k, v>>)

DictDel(d, k) == SelectSeq(d, LAMBDA p : p[1] # k)

\* jobject(data): a dict subclass holding the items of data (line 97)
jobject(data) == data

\* ------------------------------------------------------------ jsonb codec
\* The wire text of a JSON object is modelled by its token sequence
\* <<k1, v1, k2, v2, ...>>.  A text with a dangling key is not valid JSON.
RECURSIVE jsonb_encode(_)
jsonb_encode(d) ==
    IF d = <<>> THEN <<>>
    ELSE <<d[1][1], d[1][2]>> \o jsonb_encode(Tail(d))

WellFormed(s) == Len(s) % 2 = 0

RECURSIVE DecodePairs(_, _)
DecodePairs(s, acc) ==
    IF Len(s) < 2 THEN acc
    ELSE DecodePairs(SubSeq(s, 3, Len(s)), DictSet(acc, s[1], s[2]))

\* jsonb.decode(s): the decoded dict, or a decode error
jsonb_decode(s) ==
    IF WellFormed(s)
    THEN [err |-> "none", val |-> DecodePairs(s, EmptyDict)]
    ELSE [err |-> "DecodeError", val |-> EmptyDict]

\* ---------------------------------------------------------------- backend
Absent == [present |-> FALSE, text |-> <<>>, ttl |-> 0]

Entry(text, ttl) == [present |-> TRUE, text |-> text, ttl |-> ttl]

\* _moRedis.get(key): the stored text, or nothing
RedisGet(b, k) == IF b[k].present THEN {b[k].text} ELSE {}

\* _moRedis.set(key, text): store without expiry
RedisSet(b, k, text) == [b EXCEPT ![k] = Entry(text, NoExpiry)]

\* _moRedis.setex(key, ttl, text): store with expiry
RedisSetex(b, k, ttl, text) == [b EXCEPT ![k] = Entry(text, ttl)]

\* _moRedis.expire(key, ttl): reset the lifetime of an existing key
RedisExpire(b, k, ttl) ==
    IF b[k].present THEN [b EXCEPT ![k].ttl = ttl] ELSE b

\* _moRedis.delete(key)
RedisDelete(b, k) == [b EXCEPT ![k] = Absent]

\* one second passes: lifetimes count down, entries at zero are evicted
RedisTick(b) ==
    [k \in DOMAIN b |->
        IF b[k].present /\ b[k].ttl # NoExpiry
        THEN IF b[k].ttl <= 1 THEN Absent ELSE [b[k] EXCEPT !.ttl = @ - 1]
        ELSE b[k]]

\* ------------------------------------------------------- outcome of a call
\* What a call leaves behind: the exception it raised ("none" when it
\* returned), the object it ran on, its return value (empty for None), the
\* backend afterwards and the backend commands it issued.
Returned(self, ret, b, calls) ==
    [err |-> "none", self |-> self, ret |-> ret, backend |-> b, calls |-> calls]

Raised(e, self, b, calls) ==
    [err |-> e, self |-> self, ret |-> {}, backend |-> b, calls |-> calls]

\* statement sequencing: an exception ends the caller's script
Then(f, Op(_, _)) ==
    IF f.err # "none" THEN f
    ELSE LET g == Op(f.self, f.backend)
         IN  [g EXCEPT !.calls = f.calls \o g.calls]

\* --------------------------------------------------------- attribute access
\* An object is its instance dictionary.  object.__new__ gives an empty one.
NewObject == [attrs |-> <<>>]

TheOne(S) == CHOOSE x \in S : TRUE

RECURSIVE Attr(_, _, _)
RECURSIVE Memory_getattr(_, _, _)

\* self.<name> evaluated inside _Memory: the instance dictionary first, then
\* the __getattr__ hook
Attr(self, name, depth) ==
    IF name \in DOMAIN self.attrs
    THEN [err |-> "none", val |-> {self.attrs[name]}]
    ELSE Memory_getattr(self, name, depth)

\* _Memory.__getattr__ (lines 125-142): reads self.__store, looks the name up,
\* discards what it found and returns None; KeyError becomes AttributeError
Memory_getattr(self, a, depth) ==
    IF depth >= RecursionLimit
    THEN [err |-> "RecursionError", val |-> {}]
    ELSE LET s == Attr(self, StoreAttr, depth + 1)
         IN  IF s.err # "none" THEN s
             ELSE IF DictHas(TheOne(s.val), a)
                  THEN [err |-> "none", val |-> {}]
                  ELSE [err |-> "AttributeError", val |-> {}]

\* the object with its store replaced (the store is mutated in place)
WithStore(self, d) == [self EXCEPT !.attrs[StoreAttr] = d]

\* ------------------------------------------------------------ field access
\* _Memory.__setitem__ (lines 188-200)
Memory_setitem(self, b, k, v) ==
    LET s == Attr(self, StoreAttr, 0)
    IN  IF s.err # "none" THEN Raised(s.err, self, b, <<>>)
        ELSE Returned(WithStore(self, DictSet(TheOne(s.val), k, v)), {}, b, <<>>)

\* _Memory.__setattr__ (lines 177-186): every attribute assignment on the
\* object, self.__key = ... and self.__store = ... included, is a field write
Memory_setattr(self, b, a, v) == Memory_setitem(self, b, a, v)

\* _Memory.__getitem__ (lines 144-155)
Memory_getitem(self, b, k) ==
    LET s == Attr(self, StoreAttr, 0)
    IN  IF s.err # "none" THEN Raised(s.err, self, b, <<>>)
        ELSE IF ~DictHas(TheOne(s.val), k) THEN Raised("KeyError", self, b, <<>>)
        ELSE Returned(self, {DictGet(TheOne(s.val), k)}, b, <<>>)

\* _Memory.__delitem__ (lines 112-123)
Memory_delitem(self, b, k) ==
    LET s == Attr(self, StoreAttr, 0)
    IN  IF s.err # "none" THEN Raised(s.err, self, b, <<>>)
        ELSE IF ~DictHas(TheOne(s.val), k) THEN Raised("KeyError", self, b, <<>>)
        ELSE Returned(WithStore(self, DictDel(TheOne(s.val), k)), {}, b, <<>>)

\* _Memory.__contains__ (lines 99-110)
Memory_contains(self, b, k) ==
    LET s == Attr(self, StoreAttr, 0)
    IN  IF s.err # "none" THEN Raised(s.err, self, b, <<>>)
        ELSE Returned(self, {DictHas(TheOne(s.val), k)}, b, <<>>)

\* _Memory.__iter__ (lines 157-165): the field names
Memory_iter(self, b) ==
    LET s == Attr(self, StoreAttr, 0)
    IN  IF s.err # "none" THEN Raised(s.err, self, b, <<>>)
        ELSE Returned(self, {DictKeys(TheOne(s.val))}, b, <<>>)

\* _Memory.__len__ (lines 167-175)
Memory_len(self, b) ==
    LET s == Attr(self, StoreAttr, 0)
    IN  IF s.err # "none" THEN Raised(s.err, self, b, <<>>)
        ELSE Returned(self, {Len(TheOne(s.val))}, b, <<>>)

\* _Memory.key (lines 239-247)
Memory_key(self, b) ==
    LET k == Attr(self, KeyAttr, 0)
    IN  IF k.err # "none" THEN Raised(k.err, self, b, <<>>)
        ELSE Returned(self, k.val, b, <<>>)

\* -------------------------------------------------------------- lifecycle
\* a backend command must name a key; self.__key resolved to None does not
NoKey(k) == k.val = {}

\* _Memory.close (lines 212-220)
Memory_close(self, b) ==
    LET k == Attr(self, KeyAttr, 0)
    IN  IF k.err # "none" THEN Raised(k.err, self, b, <<>>)
        ELSE IF NoKey(k) THEN Raised("DataError", self, b, <<>>)
        ELSE Returned(self, {}, RedisDelete(b, TheOne(k.val)),
                      << <<"DEL", TheOne(k.val)>> >>)

\* _Memory.extend (lines 222-237)
Memory_extend(self, b) ==
    LET s == Attr(self, StoreAttr, 0)
    IN  IF s.err # "none" THEN Raised(s.err, self, b, <<>>)
        ELSE IF ~DictHas(TheOne(s.val), TtlField) THEN Raised("KeyError", self, b, <<>>)
        ELSE IF DictGet(TheOne(s.val), TtlField) = 0 THEN Returned(self, {}, b, <<>>)
        ELSE LET k == Attr(self, KeyAttr, 0)
             IN  IF k.err # "none" THEN Raised(k.err, self, b, <<>>)
                 ELSE IF NoKey(k) THEN Raised("DataError", self, b, <<>>)
                 ELSE Returned(self, {},
                               RedisExpire(b, TheOne(k.val),
                                           DictGet(TheOne(s.val), TtlField)),
                               << <<"EXPIRE", TheOne(k.val)>> >>)

\* _Memory.save (lines 249-268)
Memory_save(self, b) ==
    LET s == Attr(self, StoreAttr, 0)
    IN  IF s.err # "none" THEN Raised(s.err, self, b, <<>>)
        ELSE IF ~DictHas(TheOne(s.val), TtlField) THEN Raised("KeyError", self, b, <<>>)
        ELSE LET k == Attr(self, KeyAttr, 0)
                 d == TheOne(s.val)
             IN  IF k.err # "none" THEN Raised(k.err, self, b, <<>>)
                 ELSE IF NoKey(k) THEN Raised("DataError", self, b, <<>>)
                 ELSE IF DictGet(d, TtlField) = 0
                 THEN Returned(self, {},
                               RedisSet(b, TheOne(k.val), jsonb_encode(d)),
                               << <<"SET", TheOne(k.val)>> >>)
                 ELSE Returned(self, {},
                               RedisSetex(b, TheOne(k.val), DictGet(d, TtlField),
                                          jsonb_encode(d)),
                               << <<"SETEX", TheOne(k.val)>> >>)

\* ----------------------------------------------------------- construction
\* _Memory.__init__ (lines 82-97), run on the fresh object:
\*     self.__key = key ; self.__store = jobject(data)
\* Both statements go through __setattr__.
Memory_init(key, data, b) ==
    LET r1 == Memory_setattr(NewObject, b, KeyAttr, key)
    IN  Then(r1, LAMBDA o, bb : Memory_setattr(o, bb, StoreAttr, jobject(data)))

\* _Memory(key, data): the new object, unless __init__ raised
Memory_new(key, data, b) ==
    LET r == Memory_init(key, data, b)
    IN  IF r.err # "none" THEN Raised(r.err, NewObject, b, <<>>)
        ELSE Returned(r.self, {r.self}, b, <<>>)

\* the caller passed no identifier (None or the empty string)
NoId == ""

\* create (lines 28-46); uuid is the value uuid.uuid4().hex yields
create(id, ttl, uuid, b) ==
    LET dData == << <<TtlField, ttl>> >>
    IN  Memory_new(IF id # NoId THEN id ELSE uuid, dData, b)

\* load without the test of line 64: the missing value reaches the decoder
load_NoAbsentCheck(id, b) ==
    LET s == RedisGet(b, id)
        get == << <<"GET", id>> >>
    IN  IF s = {} THEN Raised("TypeError", NewObject, b, get)
        ELSE LET d == jsonb_decode(TheOne(s))
             IN  IF d.err # "none" THEN Raised(d.err, NewObject, b, get)
                 ELSE LET m == Memory_new(id, d.val, b)
                      IN  [m EXCEPT !.calls = get \o m.calls]

\* load with the decode error caught and the session treated as missing
load_DecodeSwallowed(id, b) ==
    LET s == RedisGet(b, id)
        get == << <<"GET", id>> >>
    IN  IF s = {} THEN Returned(NewObject, {}, b, get)
        ELSE LET d == jsonb_decode(TheOne(s))
             IN  IF d.err # "none" THEN Returned(NewObject, {}, b, get)
                 ELSE LET m == Memory_new(id, d.val, b)
                      IN  [m EXCEPT !.calls = get \o m.calls]

\* load (lines 48-71)
load(id, b) ==
    LET s == RedisGet(b, id)
        get == << <<"GET", id>> >>
    IN  IF s = {} THEN Returned(NewObject, {}, b, get)
        ELSE LET d == jsonb_decode(TheOne(s))
             IN  IF d.err # "none" THEN Raised(d.err, NewObject, b, get)
                 ELSE LET m == Memory_new(id, d.val, b)
                      IN  [m EXCEPT !.calls = get \o m.calls]

\* ------------------------------------------------------------------ state
\* backend: the shared Redis store, per key
\* last:    the most recent call and its outcome as the caller sees it
VARIABLES backend, last

vars == <<backend, last>>

\* session documents the other handlers of the service keep in the store,
\* and a value that is not a JSON document
Malformed == <<"user">>

PeerTexts ==
    { jsonb_encode(<< <<TtlField, 0>> >>),
      jsonb_encode(<< <<TtlField, MaxTtl>>, <<"user", MaxVal>> >>),
      jsonb_encode(<< <<"user", 0>> >>),
      Malformed }

Outcome(op, id, ttl, r) ==
    [op |-> op, id |-> id, ttl |-> ttl, err |-> r.err, ret |-> r.ret,
     calls |-> r.calls]

Init ==
    /\ backend = [k \in AllIds |-> Absent]
    /\ last = Outcome("start", NoId, 0, Returned(NewObject, {}, backend, <<>>))

\* a caller runs create(id, ttl)
Create(id, ttl, uuid) ==
    LET r == create(id, ttl, uuid, backend)
    IN  /\ backend' = r.backend
        /\ last' = Outcome("create", id, ttl, r)

\* a caller runs load(id)
Load(id) ==
    LET r == load(id, backend)
    IN  /\ backend' = r.backend
        /\ last' = Outcome("load", id, 0, r)

\* another handler of the service stores a session without expiry
PeerSet(k, text) ==
    /\ backend' = RedisSet(backend, k, text)
    /\ last' = Outcome("peer_set", k, 0, Returned(NewObject, {}, backend, <<>>))

\* another handler stores a session with expiry
PeerSetex(k, ttl, text) ==
    /\ backend' = RedisSetex(backend, k, ttl, text)
    /\ last' = Outcome("peer_setex", k, ttl, Returned(NewObject, {}, backend, <<>>))

\* another handler deletes a session
PeerDelete(k) ==
    /\ backend[k].present
    /\ backend' = RedisDelete(backend, k)
    /\ last' = Outcome("peer_delete", k, 0, Returned(NewObject, {}, backend, <<>>))

\* one second passes in the backend
Tick ==
    /\ \E k \in AllIds : backend[k].present /\ backend[k].ttl # NoExpiry
    /\ backend' = RedisTick(backend)
    /\ last' = Outcome("tick", NoId, 0, Returned(NewObject, {}, backend, <<>>))

\* The calls a caller can make.  create and load are the only functions that
\* hand out a _Memory, and a method runs only on an object one of them has
\* returned; the methods are the operators above, and a caller's sequence of
\* statements is their composition with Then (see the scripts below).
Next ==
    \/ \E id \in Ids \cup {NoId}, ttl \in Ttls, uuid \in GenIds : Create(id, ttl, uuid)
    \/ \E id \in Ids : Load(id)
    \/ \E k \in Ids, text \in PeerTexts : PeerSet(k, text)
    \/ \E k \in Ids, ttl \in 1..MaxTtl, text \in PeerTexts : PeerSetex(k, ttl, text)
    \/ \E k \in Ids : PeerDelete(k)
    \/ Tick

Spec == Init /\ [][Next]_vars

\* ------------------------------------------------------- caller scripts
\* the caller's view before its first statement
Start(b) == Returned(NewObject, {}, b, <<>>)

\* field sets a caller populates a new session with
FieldSets ==
    { <<>>,
      << <<"user", MaxVal>> >>,
      << <<"user", 0>>, <<"missing", MaxVal>> >> }

DictItems(d) == {d[n] : n \in 1..Len(d)}

\* h[k] = v for every item of F, in order
RECURSIVE SetAll(_, _)
SetAll(f, F) ==
    IF F = <<>> THEN f
    ELSE SetAll(Then(f, LAMBDA o, b : Memory_setitem(o, b, F[1][1], F[1][2])),
                Tail(F))

\* what iterating a handle and reading each field yields, and its count
Entries(h, b) ==
    LET it == Memory_iter(h, b)
    IN  IF it.err # "none" THEN {}
        ELSE {<<k, TheOne(Memory_getitem(h, b, k).ret)>> : k \in TheOne(it.ret)}

Count(h, b) == Memory_len(h, b).ret

\* n seconds pass with no call on the store
RECURSIVE Ticks(_, _)
Ticks(b, n) == IF n = 0 THEN b ELSE Ticks(RedisTick(b), n - 1)

\* h = create(i, ttl)
ScriptCreate(i, ttl, u, b) ==
    Then(Start(b), LAMBDA o, bb : create(i, ttl, u, bb))

\* h = create(i); h[k] = v ...; h.save(); load(i)
ScriptRoundTrip(i, F, u, b) ==
    Then(Then(SetAll(ScriptCreate(i, 0, u, b), F),
              LAMBDA o, bb : Memory_save(o, bb)),
         LAMBDA o, bb : load(i, bb))

\* h = create(i, ttl); h.save()
ScriptSave(i, ttl, u, b) ==
    Then(ScriptCreate(i, ttl, u, b), LAMBDA o, bb : Memory_save(o, bb))

\* h = create(i, ttl); h.extend()
ScriptExtend(i, ttl, u, b) ==
    Then(ScriptCreate(i, ttl, u, b), LAMBDA o, bb : Memory_extend(o, bb))

\* h = create(i); h.close()
ScriptClose(i, u, b) ==
    Then(ScriptCreate(i, 0, u, b), LAMBDA o, bb : Memory_close(o, bb))

\* h = create(i); h[k]
ScriptGet(i, k, u, b) ==
    Then(ScriptCreate(i, 0, u, b), LAMBDA o, bb : Memory_getitem(o, bb, k))

\* h = create(i); del h[k]
ScriptDel(i, k, u, b) ==
    Then(ScriptCreate(i, 0, u, b), LAMBDA o, bb : Memory_delitem(o, bb, k))

\* ------------------------------------------------------------------ claims

\* C1: round trip.  For every identifier i and field set F, the script
\* h = create(i); h[k] = v for F; h.save(); load(i) ends without error in a
\* handle whose entries and count are exactly F.
C1_RoundTrip ==
    \A i \in Ids, F \in FieldSets, u \in GenIds :
        LET r == ScriptRoundTrip(i, F, u, backend)
        IN  /\ r.err = "none"
            /\ r.ret # {}
            /\ Entries(TheOne(r.ret), r.backend) = DictItems(F)
            /\ Count(TheOne(r.ret), r.backend) = {Len(F)}

\* C2: load(i) of an identifier without backend entry returns None, raises
\* nothing and leaves the backend as it was.
C2_LoadAbsent ==
    [][(last'.op = "load" /\ ~backend[last'.id].present)
        => (last'.err = "none" /\ last'.ret = {} /\ backend' = backend)]_vars

\* a load has just returned None for an identifier that has no entry after
\* an earlier entry of it was deleted or has expired
C2_Witness ==
    /\ last.op = "load"
    /\ ~backend[last.id].present
    /\ last.err = "none"
    /\ last.ret = {}
    /\ last.calls = << <<"GET", last.id>> >>
    /\ \E k \in Ids : k # last.id /\ backend[k].present

\* C3: after h = create(i); h.close() the entry of i is gone and load(i)
\* returns None; when the entry was already absent, close() raises nothing
\* and leaves the backend unchanged.
C3_CloseThenAbsent ==
    \A i \in Ids, u \in GenIds :
        LET r == ScriptClose(i, u, backend)
            l == load(i, r.backend)
        IN  /\ r.err = "none"
            /\ ~r.backend[i].present
            /\ l.err = "none" /\ l.ret = {}
            /\ (~backend[i].present => r.backend = backend)

\* C4: h = create(i, N) with N > 0; h.save() returns normally and has written
\* the entry of i with expiry N, so that N seconds later it is gone and
\* load(i) returns None.
C4_SaveExpires ==
    \A i \in Ids, N \in 1..MaxTtl, u \in GenIds :
        LET r == ScriptSave(i, N, u, backend)
            l == load(i, Ticks(r.backend, N))
        IN  /\ r.err = "none"
            /\ r.backend[i].present /\ r.backend[i].ttl = N
            /\ l.err = "none" /\ l.ret = {}

\* C5: h = create(i, 0); h.save() returns normally and has written the entry
\* of i without expiry, whatever lifetime the entry had before: it is present
\* after any number of seconds.
C5_SaveForever ==
    \A i \in Ids, u \in GenIds, n \in 0..(MaxTtl + 1) :
        LET r == ScriptSave(i, 0, u, backend)
        IN  /\ r.err = "none"
            /\ r.backend[i].present /\ r.backend[i].ttl = NoExpiry
            /\ Ticks(r.backend, n)[i].present

\* C6: h = create(i, 0); h.extend() returns normally, has issued no backend
\* command and leaves every entry and every remaining lifetime as it was.
C6_ExtendZeroNoCall ==
    \A i \in Ids, u \in GenIds :
        LET r == ScriptExtend(i, 0, u, backend)
        IN  /\ r.err = "none"
            /\ r.calls = <<>>
            /\ r.backend = backend

\* C7: h = create(i, N) with N > 0; h.extend() while the entry of i exists
\* returns normally and has reset the entry's remaining lifetime to N.
C7_ExtendResets ==
    \A i \in Ids, N \in 1..MaxTtl, u \in GenIds :
        backend[i].present =>
            LET r == ScriptExtend(i, N, u, backend)
            IN  /\ r.err = "none"
                /\ r.backend[i].present
                /\ r.backend[i].ttl = N

\* C8: h = create(i, N); h.extend() returns normally, changes no stored
\* value, creates no entry, touches no other key and leaves the fields of h
\* as they were.
C8_ExtendKeepsData ==
    \A i \in Ids, N \in Ttls, u \in GenIds :
        LET c == ScriptCreate(i, N, u, backend)
            r == Then(c, LAMBDA o, b : Memory_extend(o, b))
        IN  /\ r.err = "none"
            /\ \A k \in AllIds :
                 /\ r.backend[k].present = backend[k].present
                 /\ r.backend[k].text = backend[k].text
                 /\ k # i => r.backend[k] = backend[k]
            /\ Entries(r.self, r.backend) = Entries(c.self, c.backend)

\* C9: create(id, ttl) returns a handle, raises nothing and issues no
\* backend command.
C9_CreateReturnsHandle ==
    last.op = "create" =>
        /\ last.err = "none"
        /\ last.ret # {}
        /\ last.calls = <<>>

\* C10: on a handle fresh from create(), reading or deleting the field
\* "missing" raises KeyError and leaves the fields unchanged.
C10_MissingFieldRaises ==
    \A i \in Ids, u \in GenIds :
        LET c == ScriptCreate(i, 0, u, backend)
            g == ScriptGet(i, "missing", u, backend)
            d == ScriptDel(i, "missing", u, backend)
        IN  /\ g.err = "KeyError"
            /\ d.err = "KeyError"
            /\ Entries(g.self, g.backend) = Entries(c.self, c.backend)
            /\ Entries(d.self, d.backend) = Entries(c.self, c.backend)

\* C11: load(i) of an entry whose stored value is not a JSON document raises
\* the decode error; it returns neither a handle nor None, and the entry is
\* left as it was.
C11_LoadCorrupted ==
    [][(last'.op = "load" /\ backend[last'.id].present
                          /\ ~WellFormed(backend[last'.id].text))
        => (last'.err = "DecodeError" /\ last'.ret = {} /\ backend' = backend)]_vars

\* a load of an entry holding a malformed value has just raised, and the
\* entry is still there
C11_Witness ==
    /\ last.op = "load"
    /\ backend[last.id].present
    /\ backend[last.id].text = Malformed
    /\ last.err = "DecodeError"
    /\ last.calls = << <<"GET", last.id>> >>

\* A = create(i); B = create(i); A[k] = v for FA; B[k] = v for FB;
\* A.save(); B.save() -- the outcome of the last statement, on B
ScriptTwoSaves(i, FA, FB, u, b) ==
    LET a  == SetAll(ScriptCreate(i, 0, u, b), FA)
        bh == IF a.err # "none" THEN a
              ELSE SetAll(ScriptCreate(i, 0, u, a.backend), FB)
        sa == IF bh.err # "none" THEN bh ELSE Memory_save(a.self, bh.backend)
    IN  IF sa.err # "none" THEN sa ELSE Memory_save(bh.self, sa.backend)

\* the fields a stored text decodes to
StoredItems(e) == DictItems(jsonb_decode(e.text).val)

\* C12: two handles A and B of one identifier, populated independently and
\* saved one after the other: both saves return normally and the stored
\* value is exactly the fields of B, the last to save, with B's expiry; a
\* field only A has set is not in it.
C12_LastSaveWins ==
    \A i \in Ids, FA \in FieldSets, FB \in FieldSets, u \in GenIds :
        LET r == ScriptTwoSaves(i, FA, FB, u, backend)
        IN  /\ r.err = "none"
            /\ r.backend[i].present
            /\ r.backend[i].ttl = NoExpiry
            /\ StoredItems(r.backend[i]) = Entries(r.self, r.backend)
            /\ \A p \in DictItems(FA) :
                 p[1] \notin DictKeys(FB) =>
                     p[1] \notin {q[1] : q \in StoredItems(r.backend[i])}

\* h = create(id, ttl); h['user'] = v; h.user = v; del h['user']; h.save();
\* h.extend(); h.close(); h.key()
ScriptKeyAfterUse(id, ttl, v, u, b) ==
    Then(Then(Then(Then(Then(Then(Then(ScriptCreate(id, ttl, u, b),
        LAMBDA o, bb : Memory_setitem(o, bb, "user", v)),
        LAMBDA o, bb : Memory_setattr(o, bb, "user", v)),
        LAMBDA o, bb : Memory_delitem(o, bb, "user")),
        LAMBDA o, bb : Memory_save(o, bb)),
        LAMBDA o, bb : Memory_extend(o, bb)),
        LAMBDA o, bb : Memory_close(o, bb)),
        LAMBDA o, bb : Memory_key(o, bb))

\* h = create(id, ttl); h.key()
ScriptKey(id, ttl, u, b) ==
    Then(ScriptCreate(id, ttl, u, b), LAMBDA o, bb : Memory_key(o, bb))

\* C13: key() of a created handle is a non-empty string, the identifier
\* passed in or else the generated one, and it is that same value after
\* field writes, reads and deletes, save(), extend() and close().
C13_KeyStable ==
    \A id \in Ids \cup {NoId}, ttl \in Ttls, v \in Values, u \in GenIds :
        LET k1 == ScriptKey(id, ttl, u, backend)
            k2 == ScriptKeyAfterUse(id, ttl, v, u, backend)
        IN  /\ k1.err = "none"
            /\ k1.ret = {IF id # NoId THEN id ELSE u}
            /\ NoId \notin k1.ret
            /\ k2.err = "none"
            /\ k2.ret = k1.ret

\* h = create(i, ttl); del h['__ttl']; h.save()
ScriptSaveNoTtl(i, ttl, u, b) ==
    Then(Then(ScriptCreate(i, ttl, u, b),
              LAMBDA o, bb : Memory_delitem(o, bb, TtlField)),
         LAMBDA o, bb : Memory_save(o, bb))

\* h = create(i, ttl); del h['__ttl']; h.extend()
ScriptExtendNoTtl(i, ttl, u, b) ==
    Then(Then(ScriptCreate(i, ttl, u, b),
              LAMBDA o, bb : Memory_delitem(o, bb, TtlField)),
         LAMBDA o, bb : Memory_extend(o, bb))

\* C14: save() and extend() apply the same expiry, the reserved field when
\* it is present and non-zero: after h = create(i, N) both return normally
\* and leave an existing entry of i with lifetime N; and on a handle whose
\* reserved field was deleted both return normally.
C14_SameEffectiveExpiry ==
    \A i \in Ids, N \in 1..MaxTtl, u \in GenIds :
        LET s  == ScriptSave(i, N, u, backend)
            e  == ScriptExtend(i, N, u, backend)
            s0 == ScriptSaveNoTtl(i, N, u, backend)
            e0 == ScriptExtendNoTtl(i, N, u, backend)
        IN  /\ s.err = "none" /\ e.err = "none"
            /\ s.backend[i].ttl = N
            /\ (backend[i].present => e.backend[i].ttl = s.backend[i].ttl)
            /\ s0.err = "none" /\ e0.err = "none"

\* h = create(i, 0); len(h)
ScriptLen(i, u, b) ==
    Then(ScriptCreate(i, 0, u, b), LAMBDA o, bb : Memory_len(o, bb))

\* h = create(i, 0); iter(h)
ScriptIter(i, u, b) ==
    Then(ScriptCreate(i, 0, u, b), LAMBDA o, bb : Memory_iter(o, bb))

\* h = create(i, 0); k in h
ScriptContains(i, k, u, b) ==
    Then(ScriptCreate(i, 0, u, b), LAMBDA o, bb : Memory_contains(o, bb, k))

\* C15: a handle from create() with the ttl omitted or zero has no fields:
\* its count is 0, iterating it yields no name and it contains no name.
C15_CreateEmpty ==
    \A i \in Ids, u \in GenIds :
        /\ ScriptLen(i, u, backend).err = "none"
        /\ ScriptLen(i, u, backend).ret = {0}
        /\ ScriptIter(i, u, backend).ret = {{}}
        /\ \A k \in FieldNames : ScriptContains(i, k, u, backend).ret = {FALSE}

\* values a caller may assign to the reserved field; nothing in __setitem__
\* or create restricts them
ExpiryInputs == (0 - 1)..MaxTtl

\* h = create(i, ttl); h['__ttl'] = v
ScriptSetTtl(i, ttl, v, u, b) ==
    Then(ScriptCreate(i, ttl, u, b),
         LAMBDA o, bb : Memory_setitem(o, bb, TtlField, v))

\* C16: after create and any field write by the caller the handle exists and
\* its reserved expiry field, if present, holds a non-negative integer.
C16_ExpiryNonNegative ==
    \A i \in Ids, ttl \in Ttls, v \in ExpiryInputs, u \in GenIds :
        LET c == ScriptCreate(i, ttl, u, backend)
            w == ScriptSetTtl(i, ttl, v, u, backend)
            gc == Then(c, LAMBDA o, bb : Memory_getitem(o, bb, TtlField))
            gw == Then(w, LAMBDA o, bb : Memory_getitem(o, bb, TtlField))
        IN  /\ c.err = "none"
            /\ w.err = "none"
            /\ \A x \in gc.ret \cup gw.ret : x >= 0

\* h = create(i, N); h.save(); h2 = load(i) -- the outcome of load, on h2
ScriptSaveLoad(i, N, u, b) ==
    Then(ScriptSave(i, N, u, b), LAMBDA o, bb : load(i, bb))

\* C17: after h = create(i, N) with N > 0 and h.save(), h2 = load(i) returns
\* a handle carrying the override N: h2.save() writes the entry with expiry
\* N and, one second later, h2.extend() resets its lifetime to N.
C17_OverrideSurvives ==
    \A i \in Ids, N \in 1..MaxTtl, u \in GenIds :
        LET l == ScriptSaveLoad(i, N, u, backend)
            g == Then(l, LAMBDA o, bb : Memory_getitem(o, bb, TtlField))
            s == Then(l, LAMBDA o, bb : Memory_save(o, RedisTick(bb)))
            e == Then(l, LAMBDA o, bb : Memory_extend(o, RedisTick(bb)))
        IN  /\ l.err = "none" /\ l.ret # {}
            /\ g.ret = {N}
            /\ s.err = "none" /\ s.backend[i].present /\ s.backend[i].ttl = N
            /\ e.err = "none"
            /\ (N > 1 => e.backend[i].present /\ e.backend[i].ttl = N)

\* h.a read by a caller: the instance dictionary, then __getattr__
Memory_readattr(self, b, a) ==
    LET r == Attr(self, a, 0)
    IN  IF r.err # "none" THEN Raised(r.err, self, b, <<>>)
        ELSE Returned(self, r.val, b, <<>>)

\* h = create(i); h.a = v
ScriptSetAttr(i, a, v, u, b) ==
    Then(ScriptCreate(i, 0, u, b), LAMBDA o, bb : Memory_setattr(o, bb, a, v))

\* C18: after h.a = v the field a holds v (h['a'] is v and 'a' in h), h.a
\* reads that same value, and reading an absent h.missing raises
\* AttributeError.
C18_AttrIsItem ==
    \A i \in Ids, v \in Values, u \in GenIds :
        LET w == ScriptSetAttr(i, "user", v, u, backend)
            c == ScriptCreate(i, 0, u, backend)
        IN  /\ w.err = "none"
            /\ Then(w, LAMBDA o, bb : Memory_getitem(o, bb, "user")).ret = {v}
            /\ Then(w, LAMBDA o, bb : Memory_contains(o, bb, "user")).ret = {TRUE}
            /\ Then(w, LAMBDA o, bb : Memory_readattr(o, bb, "user")).ret = {v}
            /\ Then(c, LAMBDA o, bb : Memory_readattr(o, bb, "missing")).err
                   = "AttributeError"

\* C19: save(), extend() and close() on a handle of identifier i return
\* normally, every backend command they issue names key i, and the entry of
\* every other key j, its value, presence and remaining lifetime, is as
\* before.
C19_Isolation ==
    \A i \in Ids, N \in Ttls, u \in GenIds :
        LET s == ScriptSave(i, N, u, backend)
            e == ScriptExtend(i, N, u, backend)
            c == ScriptClose(i, u, backend)
        IN  \A r \in {s, e, c} :
              /\ r.err = "none"
              /\ \A n \in 1..Len(r.calls) : r.calls[n][2] = i
              /\ \A j \in AllIds : j # i => r.backend[j] = backend[j]

====
